---- MODULE Spec2Model ----
(***************************************************************************)
(* Model of src/parse_logs.py: parse_logs scans the lines of a log file,   *)
(* keeps a stack of open sections, builds a tree of partial sections and   *)
(* messages, closes the root at end of input and converts the partial tree *)
(* into the final tree with convert_partial_tree_to_regular_tree.          *)
(*                                                                         *)
(* A line is either text that timestamp_re does not match, or a record of  *)
(* the three groups of timestamp_re: the time string, the level and the    *)
(* message.  A time string is the tuple <<HH, MM, SS, ffffff>> of its      *)
(* fields; a message is the sequence of its whitespace-separated tokens.   *)
(* A datetime is the number of microseconds since midnight (strptime with  *)
(* "%H:%M:%S.%f" gives every value the same date).  parse_logs is called   *)
(* with message_transform left at its default, None.                       *)
(***************************************************************************)
EXTENDS Integers, Sequences, FiniteSets, TLC

\* Bounds of the model: the number of lines of the file; and, where two
\* calls of parse_logs are compared, the number of lines of the file and the
\* number of leading bars of a message that has bars.
MaxLines == 4
MaxLinesBars == 3
MaxBars == 2

\* Python's None, for the Optional fields and variables.
None == -1

\* Section names that occur in markers; <<"root">> is also the name that
\* parse_logs gives to the synthesized root.
Names == {<<"root">>, <<"A">>}
Levels == {"INFO"}

StartMarker(name) == <<"===", "start">> \o name \o <<"===", "{">>
EndMarker(name) == <<"===", "end">> \o name \o <<"===", "}">>

\* The messages of the lines of the file.
Messages ==
    {StartMarker(n) : n \in Names} \cup {EndMarker(n) : n \in Names}
        \cup {<<"|", "hello">>}

\* The time strings of the lines of the file: 00:00:00.000000 and
\* 00:00:01.000000, in any order from line to line, and one that strptime
\* rejects (hour 24).
GoodTimeStrings == {<<0, 0, 0, 0>>, <<0, 0, 1, 1>>}
BadTimeString == <<24, 0, 0, 0>>

NoMatchLine == [match |-> FALSE]
TimestampedLines ==
    [match : {TRUE}, ts_str : GoodTimeStrings, level : Levels, msg : Messages]
MalformedLine ==
    [match |-> TRUE, ts_str |-> BadTimeString, level |-> "INFO",
     msg |-> <<"|", "hello">>]
Lines == {NoMatchLine, MalformedLine} \cup TimestampedLines

\* The lines of the file where two calls of parse_logs are compared: every
\* message is a body, which may be empty, after no bar or after MaxBars bars.
\* timestamp_re needs text after the level (line 143 strips the line, and
\* \s+ must match before the message), so the message is never empty.
RECURSIVE Bars(_)
Bars(k) == IF k = 0 THEN <<>> ELSE <<"|">> \o Bars(k - 1)

Bodies ==
    {StartMarker(<<"A">>), EndMarker(<<"A">>), EndMarker(<<"root">>),
     <<"hello">>, <<>>}
BarredMessages == {Bars(k) \o b : k \in {0, MaxBars}, b \in Bodies} \ {<<>>}
BarredLines ==
    {NoMatchLine, MalformedLine}
        \cup [match : {TRUE}, ts_str : {<<0, 0, 0, 0>>}, level : Levels,
              msg : BarredMessages]

\* The text of a message after its leading bars.
LeadingBars(msg) ==
    CHOOSE k \in 0..Len(msg) :
        /\ \A i \in 1..k : msg[i] = "|"
        /\ k < Len(msg) => msg[k + 1] # "|"
Body(msg) == SubSeq(msg, LeadingBars(msg) + 1, Len(msg))

\* The line with the leading bars of its message taken away.  When nothing
\* is left of the message, nothing follows the level and timestamp_re does
\* not match the line.
WithoutBars(line) ==
    IF ~line.match THEN line
    ELSE IF Body(line.msg) = <<>> THEN NoMatchLine
    ELSE [line EXCEPT !.msg = Body(line.msg)]

VARIABLES
    f,                      \* the lines of the file read so far
    pc,                     \* "scan", "close_root", "convert", "returned", "raised"
    tree,                   \* the TreeNodes created so far; tree[1] is root
    stack_of_sections,      \* indices into tree, bottom first
    first_timestamp,
    last_timestamp,
    last_used_line_number,
    stdout,                 \* the lines written with print(), as words
    result,                 \* the tree returned, or NoResult
    exception,              \* the exception raised, or NoException
    earlier                 \* the call before this one, where two are compared

vars == <<f, pc, tree, stack_of_sections, first_timestamp, last_timestamp,
          last_used_line_number, stdout, result, exception, earlier>>

----------------------------------------------------------------------------
\* Data classes

\* PartialLogSection that does not store start_line.
PartialLogSection_NoLine(name, start_time, start_line) ==
    [type |-> "PartialLogSection", name |-> name, start_time |-> start_time,
     start_line |-> None, end_time |-> None, end_line |-> None]

PartialLogSection(name, start_time, start_line) ==
    [type |-> "PartialLogSection", name |-> name, start_time |-> start_time,
     start_line |-> start_line, end_time |-> None, end_line |-> None]

\* close with its two arguments stored in each other's field.
close_Swapped(self, end_time, end_line) ==
    [self EXCEPT !.end_time = end_line, !.end_line = end_time]

\* close that stores end_time only.
close_TimeOnly(self, end_time, end_line) ==
    [self EXCEPT !.end_time = end_time]

close(self, end_time, end_line) ==
    [self EXCEPT !.end_time = end_time, !.end_line = end_line]

LogMessage(timestamp, level, message) ==
    [type |-> "LogMessage", timestamp |-> timestamp, level |-> level,
     message |-> message]

\* LogSection with the two line numbers stored in each other's field.
LogSection_SwappedLines(name, start_time, end_time, start_line, end_line) ==
    [type |-> "LogSection", name |-> name, start_time |-> start_time,
     end_time |-> end_time, start_line |-> end_line, end_line |-> start_line]

LogSection(name, start_time, end_time, start_line, end_line) ==
    [type |-> "LogSection", name |-> name, start_time |-> start_time,
     end_time |-> end_time, start_line |-> start_line, end_line |-> end_line]

----------------------------------------------------------------------------
\* Lines 67-71: the durations are floats.  A float is a sign, an odd natural
\* number m written in bits, lowest first, and an exponent e: its value is
\* m * 2^e.  Zero is the empty m.
Precision == 53

Zero == [neg |-> FALSE, m |-> <<>>, e |-> 0]

Abs(n) == IF n < 0 THEN -n ELSE n

\* Long arithmetic is done on limbs of LimbBits bits, lowest first.
LimbBits == 10
Base == 1024
Pow2(k) == <<1, 2, 4, 8, 16, 32, 64, 128, 256, 512>>[k + 1]

BitsOf(limbs) ==
    [i \in 1..(LimbBits * Len(limbs)) |->
        (limbs[(i - 1) \div LimbBits + 1] \div Pow2((i - 1) % LimbBits)) % 2]

Limbs(bits) ==
    LET b(i) == IF i \in DOMAIN bits THEN bits[i] ELSE 0
    IN  [j \in 1..((Len(bits) + LimbBits - 1) \div LimbBits) |->
            LET k == LimbBits * (j - 1)
            IN  b(k + 1) + 2 * b(k + 2) + 4 * b(k + 3) + 8 * b(k + 4)
                + 16 * b(k + 5) + 32 * b(k + 6) + 64 * b(k + 7)
                + 128 * b(k + 8) + 256 * b(k + 9) + 512 * b(k + 10)]

LimbsOfInt(n) ==
    <<n % Base, (n \div Base) % Base, (n \div (Base * Base)) % Base,
      n \div (Base * Base * Base)>>

Ones(bits) == {i \in DOMAIN bits : bits[i] = 1}
Highest(S) == CHOOSE i \in S : \A j \in S : j <= i
Lowest(S) == CHOOSE i \in S : \A j \in S : i <= j

StripHigh(bits) ==
    IF Ones(bits) = {} THEN <<>> ELSE SubSeq(bits, 1, Highest(Ones(bits)))

Bits(n) == StripHigh(BitsOf(LimbsOfInt(n)))

ShiftLeft(bits, k) == [i \in 1..k |-> 0] \o bits

\* limbs * c + carry, for a small c.
RECURSIVE TimesSmall(_, _, _)
TimesSmall(limbs, c, carry) ==
    IF limbs = <<>> THEN LimbsOfInt(carry)
    ELSE LET t == carry + Head(limbs) * c
         IN  <<t % Base>> \o TimesSmall(Tail(limbs), c, t \div Base)

\* Quotient and remainder of limbs by a small d.
RECURSIVE DivSmall(_, _)
DivSmall(limbs, d) ==
    IF limbs = <<>> THEN [q |-> <<>>, r |-> 0]
    ELSE LET hi == DivSmall(Tail(limbs), d)
             t == Base * hi.r + Head(limbs)
         IN  [q |-> <<t \div d>> \o hi.q, r |-> t % d]

Float(neg, bits, e) ==
    IF Ones(bits) = {} THEN Zero
    ELSE [neg |-> neg,
          m |-> SubSeq(bits, Lowest(Ones(bits)), Highest(Ones(bits))),
          e |-> e + Lowest(Ones(bits)) - 1]

FromInt(n) == Float(n < 0, Bits(Abs(n)), 0)

\* bits * 2^e, more exact bits lost if sticky, rounded to Precision bits,
\* ties to even.
Round(neg, bits, sticky, e) ==
    LET b == StripHigh(bits)
        drop == Len(b) - Precision
    IN  IF drop <= 0 THEN Float(neg, b, e)
        ELSE LET kept == SubSeq(b, drop + 1, Len(b))
                 rest == sticky \/ \E i \in 1..(drop - 1) : b[i] = 1
                 up == b[drop] = 1 /\ (rest \/ kept[1] = 1)
             IN  Float(neg,
                       IF up THEN BitsOf(TimesSmall(Limbs(kept), 1, 1))
                       ELSE kept,
                       e + drop)

\* int / int: the float nearest to n / d.
TrueDivide(n, d) ==
    LET shift == Precision + 2 + Len(Bits(d))
        qr == DivSmall(Limbs(ShiftLeft(Bits(Abs(n)), shift)), d)
    IN  Round(n < 0, BitsOf(qr.q), qr.r # 0, -shift)

\* float * c for a small whole c.
FloatTimes(x, c) ==
    Round(x.neg, BitsOf(TimesSmall(Limbs(x.m), c, 0)), FALSE, x.e)

\* timedelta.total_seconds() of a difference of delta microseconds.
total_seconds(delta) == TrueDivide(delta, 1000000)

\* Lines 67-68.
duration_microseconds(self) ==
    FloatTimes(total_seconds(self.end_time - self.start_time), 1000000)

\* Lines 70-71.
duration_seconds(self) == total_seconds(self.end_time - self.start_time)

----------------------------------------------------------------------------
TreeNode(data) == [data |-> data, children |-> <<>>]

add_child(node, child) == [node EXCEPT !.children = Append(@, child)]

----------------------------------------------------------------------------
\* Line classification

\* datetime.strptime(ts_str, "%H:%M:%S.%f"): raises ValueError unless the
\* fields are in range.
strptime_ok(ts_str) ==
    /\ ts_str[1] \in 0..23
    /\ ts_str[2] \in 0..59
    /\ ts_str[3] \in 0..59
    /\ ts_str[4] \in 0..999999

strptime(ts_str) ==
    ((ts_str[1] * 60 + ts_str[2]) * 60 + ts_str[3]) * 1000000 + ts_str[4]

\* msg_clean that drops one leading bar only.
msg_clean_Once(msg) ==
    IF msg # <<>> /\ Head(msg) = "|" THEN Tail(msg) ELSE msg

\* re.sub(r"^(?:\|\s*)+", "", msg): drops the leading bars.
RECURSIVE msg_clean(_)
msg_clean(msg) ==
    IF msg # <<>> /\ Head(msg) = "|" THEN msg_clean(Tail(msg)) ELSE msg

\* The positions k at which a marker's name can end: tokens 3..k are the
\* name (.+?), followed by "===" and the brace.
NameEnds(m, brace) ==
    {k \in 3..(Len(m) - 2) : m[k + 1] = "===" /\ m[k + 2] = brace}

MarkerMatch(m, word, brace) ==
    /\ Len(m) >= 5
    /\ m[1] = "==="
    /\ m[2] = word
    /\ NameEnds(m, brace) # {}

Min(S) == CHOOSE x \in S : \A y \in S : x <= y

\* group(1) of a marker match: the shortest name.
MarkerName(m, brace) == SubSeq(m, 3, Min(NameEnds(m, brace)))

start_match(m) == MarkerMatch(m, "start", "{")
end_match(m) == MarkerMatch(m, "end", "}")

----------------------------------------------------------------------------
\* convert_partial_tree_to_regular_tree

\* An exception is its type and the words of its message.  The asserts of
\* convert_partial_tree_to_regular_tree have no message.
Exception(type, args) == [type |-> type, args |-> args]
NoException == Exception("None", <<>>)
NoResult == [type |-> "None"]

IsFailure(r) == "raised" \in DOMAIN r
Failure == [raised |-> Exception("AssertionError", <<>>)]

\* FieldsPresent without the asserts on the end fields.
FieldsPresent_StartOnly(partial) ==
    /\ partial.start_time # None
    /\ partial.start_line # None

\* The four asserts on the partial section's fields.
FieldsPresent(partial) ==
    /\ partial.start_time # None
    /\ partial.end_time # None
    /\ partial.start_line # None
    /\ partial.end_line # None

\* The conversion without the recursive calls: every child is wrapped as it
\* is.
convert_Shallow(t, n) ==
    LET partial == t[n].data
        children == t[n].children
    IN  IF ~(partial.type = "PartialLogSection" /\ FieldsPresent(partial))
        THEN Failure
        ELSE [data |-> LogSection(partial.name, partial.start_time,
                                  partial.end_time, partial.start_line,
                                  partial.end_line),
              children |-> [i \in 1..Len(children) |->
                               TreeNode(t[children[i]].data)]]

\* The conversion of the subtree of t rooted at node n: the new tree, or
\* Failure when an assert of this call or of a recursive call fails.
RECURSIVE convert_partial_tree_to_regular_tree(_, _)
convert_partial_tree_to_regular_tree(t, n) ==
    LET partial == t[n].data
        children == t[n].children
    IN  IF ~(partial.type = "PartialLogSection" /\ FieldsPresent(partial))
        THEN Failure
        ELSE LET new_data == LogSection(partial.name, partial.start_time,
                                        partial.end_time, partial.start_line,
                                        partial.end_line)
                 new_children ==
                     [i \in 1..Len(children) |->
                         IF t[children[i]].data.type = "PartialLogSection"
                         THEN convert_partial_tree_to_regular_tree(t, children[i])
                         ELSE TreeNode(t[children[i]].data)]
             IN  IF \E i \in 1..Len(children) : IsFailure(new_children[i])
                 THEN Failure
                 ELSE [data |-> new_data, children |-> new_children]

----------------------------------------------------------------------------
\* parse_logs

root == 1

\* parse_logs is called once; or twice, the second time on the file of the
\* first call with the leading bars of every message taken away.
OneCall == [calls |-> 1]
FirstOfTwo == [calls |-> 2, finished |-> FALSE]
InSecondCall == earlier.calls = 2 /\ earlier.finished

Init ==
    /\ earlier = OneCall
    /\ f = <<>>
    /\ pc = "scan"
    /\ tree = <<TreeNode(PartialLogSection(<<"root">>, None, None))>>
    /\ stack_of_sections = <<root>>
    /\ first_timestamp = None
    /\ last_timestamp = None
    /\ last_used_line_number = None
    /\ stdout = <<>>
    /\ result = NoResult
    /\ exception = NoException

\* enumerate(f, start=1)
line_num == Len(f) + 1

\* UsedLineNumber, were line 142 placed after the `continue` of line 145.
UsedLineNumber_AfterMatch(line) ==
    IF line.match THEN line_num ELSE last_used_line_number

\* The value of last_used_line_number after the iteration for `line`.
UsedLineNumber(line) == line_num

\* current_section taken from the bottom of the stack.
current_section_Bottom == stack_of_sections[1]

\* stack_of_sections[-1]
current_section == stack_of_sections[Len(stack_of_sections)]

\* EndMatchesCurrent without the comparison of names.
EndMatchesCurrent_AnyName(section_name) == stack_of_sections # <<>>

\* The test of line 183.
EndMatchesCurrent(section_name) ==
    /\ stack_of_sections # <<>>
    /\ tree[current_section].data.name = section_name

\* TreeSeen without the test of first_timestamp.
TreeSeen_EveryLine(timestamp) ==
    [tree EXCEPT ![root].data.start_time = timestamp]

\* Lines 150-154: the tree after the first timestamp is stored in root.
TreeSeen(timestamp) ==
    IF first_timestamp = None
    THEN [tree EXCEPT ![root].data.start_time = timestamp]
    ELSE tree

SeeTimestamp(timestamp) ==
    /\ first_timestamp' =
           IF first_timestamp = None THEN timestamp ELSE first_timestamp
    /\ last_timestamp' = timestamp

\* What the next line of the file can be.
NextLines ==
    IF earlier.calls = 1 THEN Lines
    ELSE IF ~earlier.finished THEN BarredLines
    ELSE IF Len(f) < Len(earlier.f)
    THEN {WithoutBars(earlier.f[Len(f) + 1])}
    ELSE {}

LineBound == IF earlier.calls = 1 THEN MaxLines ELSE MaxLinesBars

\* Lines 141-142: the loop takes the next line of the file.
Read(line) ==
    /\ pc = "scan"
    /\ Len(f) < LineBound
    /\ f' = Append(f, line)
    /\ last_used_line_number' = UsedLineNumber(line)
    /\ UNCHANGED earlier

\* NoMatch that forgets the last timestamp.
NoMatch_ForgetsLast ==
    \E line \in NextLines :
        /\ Read(line)
        /\ ~line.match
        /\ last_timestamp' = None
        /\ UNCHANGED <<pc, tree, stack_of_sections, first_timestamp,
                       stdout, result, exception>>

\* Lines 143-145: timestamp_re does not match.
NoMatch ==
    \E line \in NextLines :
        /\ Read(line)
        /\ ~line.match
        /\ UNCHANGED <<pc, tree, stack_of_sections, first_timestamp,
                       last_timestamp, stdout, result, exception>>

\* Line 148: strptime raises ValueError.
MalformedTimestamp ==
    \E line \in NextLines :
        /\ Read(line)
        /\ line.match
        /\ ~strptime_ok(line.ts_str)
        /\ pc' = "raised"
        /\ exception' = Exception("ValueError",
               <<"time", "data", "does", "not", "match", "format">>)
        /\ UNCHANGED <<tree, stack_of_sections, first_timestamp,
                       last_timestamp, stdout, result>>

\* Line 161 with an empty stack: IndexError.
NoCurrentSection ==
    \E line \in NextLines :
        /\ Read(line)
        /\ line.match
        /\ strptime_ok(line.ts_str)
        /\ stack_of_sections = <<>>
        /\ SeeTimestamp(strptime(line.ts_str))
        /\ tree' = TreeSeen(strptime(line.ts_str))
        /\ pc' = "raised"
        /\ exception' = Exception("IndexError",
               <<"list", "index", "out", "of", "range">>)
        /\ UNCHANGED <<stack_of_sections, stdout, result>>

\* Lines 164-176: a start marker.
StartOfSection ==
    \E line \in NextLines :
        /\ Read(line)
        /\ line.match
        /\ strptime_ok(line.ts_str)
        /\ stack_of_sections # <<>>
        /\ start_match(msg_clean(line.msg))
        /\ LET timestamp == strptime(line.ts_str)
               section_name == MarkerName(msg_clean(line.msg), "{")
               sec_data == PartialLogSection(section_name, timestamp, line_num)
               new_node == Len(tree) + 1
           IN  /\ SeeTimestamp(timestamp)
               /\ tree' = Append(
                      [TreeSeen(timestamp) EXCEPT ![current_section] =
                          add_child(@, new_node)],
                      TreeNode(sec_data))
               /\ stack_of_sections' = Append(stack_of_sections, new_node)
        /\ UNCHANGED <<pc, stdout, result, exception>>

\* Lines 178-185: an end marker that names the current section.
EndOfSection ==
    \E line \in NextLines :
        /\ Read(line)
        /\ line.match
        /\ strptime_ok(line.ts_str)
        /\ stack_of_sections # <<>>
        /\ ~start_match(msg_clean(line.msg))
        /\ end_match(msg_clean(line.msg))
        /\ EndMatchesCurrent(MarkerName(msg_clean(line.msg), "}"))
        /\ LET timestamp == strptime(line.ts_str)
           IN  /\ SeeTimestamp(timestamp)
               /\ tree' = [TreeSeen(timestamp) EXCEPT ![current_section].data =
                              close(@, timestamp, line_num)]
        /\ stack_of_sections' =
               SubSeq(stack_of_sections, 1, Len(stack_of_sections) - 1)
        /\ UNCHANGED <<pc, stdout, result, exception>>

\* Lines 178-181, 186-188: an end marker that does not.
UnmatchedEndOfSection ==
    \E line \in NextLines :
        /\ Read(line)
        /\ line.match
        /\ strptime_ok(line.ts_str)
        /\ stack_of_sections # <<>>
        /\ ~start_match(msg_clean(line.msg))
        /\ end_match(msg_clean(line.msg))
        /\ ~EndMatchesCurrent(MarkerName(msg_clean(line.msg), "}"))
        /\ SeeTimestamp(strptime(line.ts_str))
        /\ tree' = TreeSeen(strptime(line.ts_str))
        /\ stdout' = Append(stdout,
               <<"Warning:", "unmatched", "end", "of", "section:">>
                   \o MarkerName(msg_clean(line.msg), "}"))
        /\ UNCHANGED <<pc, stack_of_sections, result, exception>>

\* Lines 190-192: a regular message.
RegularMessage ==
    \E line \in NextLines :
        /\ Read(line)
        /\ line.match
        /\ strptime_ok(line.ts_str)
        /\ stack_of_sections # <<>>
        /\ ~start_match(msg_clean(line.msg))
        /\ ~end_match(msg_clean(line.msg))
        /\ LET timestamp == strptime(line.ts_str)
               msg_data == LogMessage(timestamp, line.level, msg_clean(line.msg))
               new_node == Len(tree) + 1
           IN  /\ SeeTimestamp(timestamp)
               /\ tree' = Append(
                      [TreeSeen(timestamp) EXCEPT ![current_section] =
                          add_child(@, new_node)],
                      TreeNode(msg_data))
        /\ UNCHANGED <<pc, stack_of_sections, stdout, result, exception>>

\* The file ends (after any number of lines, up to the bound).
EndOfFile ==
    /\ pc = "scan"
    /\ InSecondCall => Len(f) = Len(earlier.f)
    /\ pc' = "close_root"
    /\ UNCHANGED <<f, tree, stack_of_sections, first_timestamp, last_timestamp,
                   last_used_line_number, stdout, result, exception, earlier>>

\* CloseRootCondition without the test of last_timestamp.
CloseRootCondition_LineOnly ==
    /\ last_used_line_number # None
    /\ last_used_line_number # 0

\* The truth value of line 195's condition.
CloseRootCondition ==
    /\ last_timestamp # None
    /\ last_used_line_number # None
    /\ last_used_line_number # 0

\* RootStartLine taken from the line counter.
RootStartLine_Last == last_used_line_number

\* Line 196.
RootStartLine == 1

\* Lines 194-198.
CloseRoot ==
    /\ pc = "close_root"
    /\ tree' =
           IF CloseRootCondition
           THEN [tree EXCEPT ![root].data =
                    close([@ EXCEPT !.start_line = RootStartLine,
                                    !.end_line = last_used_line_number],
                          last_timestamp, last_used_line_number)]
           ELSE tree
    /\ pc' = "convert"
    /\ UNCHANGED <<f, stack_of_sections, first_timestamp, last_timestamp,
                   last_used_line_number, stdout, result, exception, earlier>>

\* Line 200.
Convert ==
    /\ pc = "convert"
    /\ LET r == convert_partial_tree_to_regular_tree(tree, root)
       IN  IF IsFailure(r)
           THEN /\ pc' = "raised"
                /\ exception' = r.raised
                /\ UNCHANGED result
           ELSE /\ pc' = "returned"
                /\ result' = r
                /\ UNCHANGED exception
    /\ UNCHANGED <<f, tree, stack_of_sections, first_timestamp, last_timestamp,
                   last_used_line_number, stdout, earlier>>

Next ==
    \/ NoMatch
    \/ MalformedTimestamp
    \/ NoCurrentSection
    \/ StartOfSection
    \/ EndOfSection
    \/ UnmatchedEndOfSection
    \/ RegularMessage
    \/ EndOfFile
    \/ CloseRoot
    \/ Convert

Spec == Init /\ [][Next]_vars

\* The first call has ended: parse_logs is called again, on the file that
\* the first call read with the bars taken away.
CallAgain ==
    /\ earlier = FirstOfTwo
    /\ pc \in {"returned", "raised"}
    /\ earlier' = [calls |-> 2, finished |-> TRUE, f |-> f, pc |-> pc,
                   tree |-> tree, stack_of_sections |-> stack_of_sections,
                   stdout |-> stdout, result |-> result,
                   exception |-> exception]
    /\ f' = <<>>
    /\ pc' = "scan"
    /\ tree' = <<TreeNode(PartialLogSection(<<"root">>, None, None))>>
    /\ stack_of_sections' = <<root>>
    /\ first_timestamp' = None
    /\ last_timestamp' = None
    /\ last_used_line_number' = None
    /\ stdout' = <<>>
    /\ result' = NoResult
    /\ exception' = NoException

InitTwoCalls ==
    /\ earlier = FirstOfTwo
    /\ f = <<>>
    /\ pc = "scan"
    /\ tree = <<TreeNode(PartialLogSection(<<"root">>, None, None))>>
    /\ stack_of_sections = <<root>>
    /\ first_timestamp = None
    /\ last_timestamp = None
    /\ last_used_line_number = None
    /\ stdout = <<>>
    /\ result = NoResult
    /\ exception = NoException

NextTwoCalls ==
    \/ NoMatch
    \/ MalformedTimestamp
    \/ NoCurrentSection
    \/ StartOfSection
    \/ EndOfSection
    \/ UnmatchedEndOfSection
    \/ RegularMessage
    \/ EndOfFile
    \/ CloseRoot
    \/ Convert
    \/ CallAgain

SpecTwoCalls == InitTwoCalls /\ [][NextTwoCalls]_vars

----------------------------------------------------------------------------
\* Vocabulary of the properties

Last(s) == s[Len(s)]

\* The words of `name` occur, in a row, among `words`.
Mentions(words, name) ==
    \E i \in 1..(Len(words) - Len(name) + 1) :
        SubSeq(words, i, i + Len(name) - 1) = name

\* A timestamped line: timestamp_re matches and the time string parses.
IsTimestamped(line) == line.match /\ strptime_ok(line.ts_str)

IsStartLine(line) == IsTimestamped(line) /\ start_match(msg_clean(line.msg))
IsEndLine(line) ==
    /\ IsTimestamped(line)
    /\ ~start_match(msg_clean(line.msg))
    /\ end_match(msg_clean(line.msg))
IsMessageLine(line) ==
    /\ IsTimestamped(line)
    /\ ~start_match(msg_clean(line.msg))
    /\ ~end_match(msg_clean(line.msg))

StartName(line) == MarkerName(msg_clean(line.msg), "{")
EndName(line) == MarkerName(msg_clean(line.msg), "}")

\* The step reads one more line while scanning.
ReadsLine == pc = "scan" /\ Len(f') = Len(f) + 1

\* The partial sections of a tree of nodes.
Sections(t) == {n \in DOMAIN t : t[n].data.type = "PartialLogSection"}

\* There is a section other than root on the stack.
SectionLeftOpen == \E i \in DOMAIN stack_of_sections : stack_of_sections[i] # root

----------------------------------------------------------------------------
\* C1: a timestamped end-marker line whose name differs from the name of the
\* section on top of the stack leaves the stack unchanged, adds no node to
\* any section's children, closes no section, writes exactly one warning,
\* which names the marker's section name, and the scan goes on.
C1_UnmatchedEndIsDropped ==
    [][(/\ ReadsLine
        /\ stack_of_sections # <<>>
        /\ IsEndLine(Last(f'))
        /\ EndName(Last(f')) # tree[Last(stack_of_sections)].data.name)
       => (/\ stack_of_sections' = stack_of_sections
           /\ DOMAIN tree' = DOMAIN tree
           /\ \A n \in DOMAIN tree : tree'[n].children = tree[n].children
           /\ \A n \in Sections(tree) :
                 /\ tree'[n].data.end_time = tree[n].data.end_time
                 /\ tree'[n].data.end_line = tree[n].data.end_line
           /\ Len(stdout') = Len(stdout) + 1
           /\ SubSeq(stdout', 1, Len(stdout)) = stdout
           /\ Mentions(Last(stdout'), EndName(Last(f')))
           /\ pc' = "scan")]_vars

\* An end marker for <<"root">> was just dropped while a section named
\* <<"A">> is open: one warning, and the section is still open on the stack.
C1_Witness ==
    /\ pc = "scan"
    /\ f # <<>>
    /\ IsEndLine(Last(f))
    /\ Len(stack_of_sections) = 2
    /\ tree[Last(stack_of_sections)].data.name # EndName(Last(f))
    /\ tree[Last(stack_of_sections)].data.end_time = None
    /\ Len(stdout) = 1

----------------------------------------------------------------------------
\* C2 (as stated): when a section opened by a start marker is still on the
\* stack at end of input, the conversion raises, no tree is returned, and
\* the error names a section left open.
C2_OpenAtEofErrorNamesSection ==
    [][(pc = "convert" /\ SectionLeftOpen)
       => (/\ pc' = "raised"
           /\ result' = NoResult
           /\ \E i \in DOMAIN stack_of_sections :
                 /\ stack_of_sections[i] # root
                 /\ Mentions(exception'.args,
                             tree[stack_of_sections[i]].data.name))]_vars

\* C2 (amended): when a section opened by a start marker is still on the
\* stack at end of input, the conversion raises AssertionError and no tree
\* is returned; the AssertionError has no message.
C2_OpenAtEofFails ==
    [][(pc = "convert" /\ SectionLeftOpen)
       => (/\ pc' = "raised"
           /\ result' = NoResult
           /\ exception' = Exception("AssertionError", <<>>))]_vars

\* The conversion has failed on a file that has a start marker and no end
\* marker: the section is on the stack, root is closed, the section is not.
C2_Witness ==
    /\ pc = "raised"
    /\ exception.type = "AssertionError"
    /\ SectionLeftOpen
    /\ \E i \in DOMAIN f : IsStartLine(f[i])
    /\ \A i \in DOMAIN f : ~IsEndLine(f[i])
    /\ tree[root].data.end_time # None

----------------------------------------------------------------------------
\* C3: when the file has at least one timestamped line and a tree is
\* returned, its root has start_line 1 and end_line the number of lines of
\* the file, the lines that timestamp_re does not match included.
C3_RootSpansTheFile ==
    (pc = "returned" /\ \E i \in DOMAIN f : IsTimestamped(f[i]))
        => (/\ result.data.start_line = 1
            /\ result.data.end_line = Len(f))

\* A tree was returned for a file that ends with lines that do not match,
\* after its last timestamped line.
C3_Witness ==
    /\ pc = "returned"
    /\ Len(f) >= 3
    /\ ~Last(f).match
    /\ ~f[Len(f) - 1].match
    /\ \E i \in DOMAIN f : IsTimestamped(f[i])
    /\ result.data.end_line = Len(f)

----------------------------------------------------------------------------
\* The nesting of the markers of the file, read off the lines alone.

\* The number of start markers less the number of end markers in lines 1..k.
Depth(k) ==
    Cardinality({i \in 1..k : IsStartLine(f[i])})
        - Cardinality({i \in 1..k : IsEndLine(f[i])})

\* The end markers that bring the depth back to what it was before the
\* start marker of line i; the first of them is the one that pairs with it.
Closers(i) ==
    {j \in (i + 1)..Len(f) : IsEndLine(f[j]) /\ Depth(j) = Depth(i) - 1}

MatchOf(i) == Min(Closers(i))

\* Every start marker has a corresponding, correctly nested end marker of
\* the same name, and there is no other end marker.
WellFormedMarkers ==
    /\ \A k \in DOMAIN f : Depth(k) >= 0
    /\ Depth(Len(f)) = 0
    /\ \A i \in DOMAIN f :
          IsStartLine(f[i]) =>
              /\ Closers(i) # {}
              /\ EndName(f[MatchOf(i)]) = StartName(f[i])

\* The children that lines i..j of a well-formed file give to the section
\* enclosing them: a section for each marker pair, holding what lies between
\* the pair, and a message for each other timestamped line, in line order.
RECURSIVE ExpectedChildren(_, _)
ExpectedChildren(i, j) ==
    IF i > j THEN <<>>
    ELSE IF IsStartLine(f[i])
    THEN LET m == MatchOf(i)
         IN  <<[data |-> LogSection(StartName(f[i]), strptime(f[i].ts_str),
                                    strptime(f[m].ts_str), i, m),
                children |-> ExpectedChildren(i + 1, m - 1)]>>
                 \o ExpectedChildren(m + 1, j)
    ELSE IF IsMessageLine(f[i])
    THEN <<[data |-> LogMessage(strptime(f[i].ts_str), f[i].level,
                                msg_clean(f[i].msg)),
            children |-> <<>>]>>
             \o ExpectedChildren(i + 1, j)
    ELSE ExpectedChildren(i + 1, j)

Finished == pc \in {"returned", "raised"}

MirrorsNesting ==
    /\ pc = "returned"
    /\ result.data.name = <<"root">>
    /\ result.children = ExpectedChildren(1, Len(f))

\* C4 (as stated): for a well-formed file parse_logs returns a tree whose
\* shape mirrors the marker nesting: one section per start marker, a child
\* of the section of the innermost enclosing pair (of root when there is
\* none), the children of every section in line order.
C4_WellFormedMirrorsNesting ==
    (Finished /\ WellFormedMarkers) => MirrorsNesting

\* C4 (amended): the same, for a well-formed file that has at least one
\* timestamped line and no line whose time string strptime rejects.
C4_WellFormedTimestampedMirrorsNesting ==
    (/\ Finished
     /\ WellFormedMarkers
     /\ \E i \in DOMAIN f : IsTimestamped(f[i])
     /\ \A i \in DOMAIN f : f[i].match => strptime_ok(f[i].ts_str))
        => MirrorsNesting

\* A tree was returned for a well-formed file in which one marker pair
\* encloses another: root has a section child that has a section child.
C4_Witness ==
    /\ pc = "returned"
    /\ WellFormedMarkers
    /\ result.children # <<>>
    /\ result.children[1].data.type = "LogSection"
    /\ result.children[1].children # <<>>
    /\ result.children[1].children[1].data.type = "LogSection"

----------------------------------------------------------------------------
\* C5: while parse_logs scans, the stack is not empty and its bottom element
\* is root, so reading the top of the stack never fails.
C5_StackHoldsRoot ==
    pc = "scan" => (stack_of_sections # <<>> /\ stack_of_sections[1] = root)

\* C6: no marker line closes or pops root: during the whole scan root's
\* end_time and end_line stay absent; the close at end of input sets them.
C6_RootOpenDuringScan ==
    pc \in {"scan", "close_root"}
        => (/\ tree[root].data.end_time = None
            /\ tree[root].data.end_line = None
            /\ \E i \in DOMAIN stack_of_sections : stack_of_sections[i] = root)

----------------------------------------------------------------------------
IsSection(node) == node.data.type \in {"LogSection", "PartialLogSection"}

\* C7: in a returned tree every section has start_line <= end_line, and its
\* line range contains the line range of each of its child sections.
RECURSIVE RangesNested(_)
RangesNested(node) ==
    IsSection(node) =>
        /\ node.data.start_line <= node.data.end_line
        /\ \A i \in DOMAIN node.children :
              LET child == node.children[i]
              IN  IsSection(child) =>
                      /\ node.data.start_line <= child.data.start_line
                      /\ child.data.end_line <= node.data.end_line
                      /\ RangesNested(child)

C7_LineRangesNested == pc = "returned" => RangesNested(result)

\* A tree was returned in which a child section of root has a child section
\* of its own, strictly inside it.
C7_Witness ==
    /\ pc = "returned"
    /\ \E i \in DOMAIN result.children :
          /\ IsSection(result.children[i])
          /\ \E j \in DOMAIN result.children[i].children :
                LET inner == result.children[i].children[j]
                IN  /\ IsSection(inner)
                    /\ result.children[i].data.start_line < inner.data.start_line
                    /\ inner.data.end_line < result.children[i].data.end_line

----------------------------------------------------------------------------
RECURSIVE EndNotBeforeStart(_)
EndNotBeforeStart(node) ==
    IsSection(node) =>
        /\ node.data.end_time >= node.data.start_time
        /\ \A i \in DOMAIN node.children : EndNotBeforeStart(node.children[i])

\* The timestamps of the timestamped lines do not decrease from line to line.
TimestampsInOrder ==
    \A i, j \in DOMAIN f :
        (i < j /\ IsTimestamped(f[i]) /\ IsTimestamped(f[j]))
            => strptime(f[i].ts_str) <= strptime(f[j].ts_str)

\* C8 (as stated): in a returned tree every section, root included, has
\* end_time >= start_time.
C8_EndTimeNotBeforeStartTime == pc = "returned" => EndNotBeforeStart(result)

\* C8 (amended): the same, when the timestamps of the file do not decrease
\* from line to line.
C8_EndTimeNotBeforeStartTimeInOrder ==
    (pc = "returned" /\ TimestampsInOrder) => EndNotBeforeStart(result)

\* A tree was returned for a file with increasing timestamps in which a
\* section lasts from 00:00:00 to 00:00:01.000001.
C8_Witness ==
    /\ pc = "returned"
    /\ TimestampsInOrder
    /\ \E i \in DOMAIN result.children :
          /\ IsSection(result.children[i])
          /\ result.children[i].data.start_time = 0
          /\ result.children[i].data.end_time = 1000001

----------------------------------------------------------------------------
RECURSIVE AllFieldsPresent(_)
AllFieldsPresent(node) ==
    IsSection(node) =>
        /\ node.data.start_time # None
        /\ node.data.end_time # None
        /\ node.data.start_line # None
        /\ node.data.end_line # None
        /\ \A i \in DOMAIN node.children : AllFieldsPresent(node.children[i])

\* C9: whenever parse_logs returns a tree, every section anywhere in it has
\* start_time, end_time, start_line and end_line present; no tree is
\* returned otherwise.
C9_ReturnedTreeIsComplete ==
    /\ pc = "returned" => AllFieldsPresent(result)
    /\ pc # "returned" => result = NoResult

\* A tree with a section below root was returned for a file in which an
\* unmatched end marker was dropped during the scan.
C9_Witness ==
    /\ pc = "returned"
    /\ stdout # <<>>
    /\ \E i \in DOMAIN result.children : IsSection(result.children[i])

----------------------------------------------------------------------------
\* C10: for a file with no timestamped line (the empty file included) root
\* is never closed and no tree is returned: the conversion raises.
C10_NoTimestampNoTree ==
    (\A i \in DOMAIN f : ~f[i].match)
        => (/\ pc # "returned"
            /\ result = NoResult
            /\ tree[root].data.end_time = None
            /\ tree[root].data.end_line = None
            /\ pc = "raised" => exception = Exception("AssertionError", <<>>))

\* The conversion has raised on a file of lines none of which is timestamped.
C10_Witness ==
    /\ pc = "raised"
    /\ f # <<>>
    /\ \A i \in DOMAIN f : ~f[i].match
    /\ exception.type = "AssertionError"

----------------------------------------------------------------------------
\* The numbers of the timestamped lines of the file.
TimestampedLineNumbers == {i \in DOMAIN f : IsTimestamped(f[i])}

Max(S) == CHOOSE x \in S : \A y \in S : y <= x

TimeOfLine(i) == strptime(f[i].ts_str)

\* C11: when the file has a timestamped line and a tree is returned, root's
\* start_time is the timestamp of the first timestamped line and its
\* end_time that of the last one, whatever the kinds of those lines.
C11_RootTimesAreFirstAndLast ==
    (pc = "returned" /\ TimestampedLineNumbers # {})
        => (/\ result.data.start_time = TimeOfLine(Min(TimestampedLineNumbers))
            /\ result.data.end_time = TimeOfLine(Max(TimestampedLineNumbers)))

\* A tree was returned for a file with at least three timestamped lines, the
\* first a start marker and the last an end marker that matches no section,
\* whose first and last timestamps differ.
C11_Witness ==
    /\ pc = "returned"
    /\ Cardinality(TimestampedLineNumbers) >= 3
    /\ IsStartLine(f[Min(TimestampedLineNumbers)])
    /\ IsEndLine(f[Max(TimestampedLineNumbers)])
    /\ Len(stdout) = 1
    /\ Mentions(Last(stdout), EndName(f[Max(TimestampedLineNumbers)]))
    /\ result.data.start_time # result.data.end_time

----------------------------------------------------------------------------
\* How parse_logs classifies a line: its kind, the name of the marker and
\* the cleaned message of the event.
Classify(line) ==
    IF ~line.match THEN [kind |-> "no match", name |-> <<>>, message |-> <<>>]
    ELSE IF ~strptime_ok(line.ts_str)
    THEN [kind |-> "malformed", name |-> <<>>, message |-> <<>>]
    ELSE IF IsStartLine(line)
    THEN [kind |-> "start", name |-> StartName(line), message |-> <<>>]
    ELSE IF IsEndLine(line)
    THEN [kind |-> "end", name |-> EndName(line), message |-> <<>>]
    ELSE [kind |-> "event", name |-> <<>>, message |-> msg_clean(line.msg)]

SecondCallEnded == InSecondCall /\ pc \in {"returned", "raised"}

\* The second call classified every line as the first call did, and ended
\* as the first did: same stack, same partial tree, same warnings, same tree
\* returned or same exception raised.
SameAsEarlier ==
    /\ Len(f) = Len(earlier.f)
    /\ \A i \in DOMAIN f : Classify(f[i]) = Classify(earlier.f[i])
    /\ stack_of_sections = earlier.stack_of_sections
    /\ tree = earlier.tree
    /\ stdout = earlier.stdout
    /\ pc = earlier.pc
    /\ result = earlier.result
    /\ exception = earlier.exception

\* C13 (as stated): two files that differ only in the number of leading bars
\* of their messages are classified line by line into the same kinds, names
\* and cleaned messages, and give the same stack and the same tree.  Every
\* file is compared with the file that has no bars; two files that differ
\* only in their bars are both compared with the same one.  The stack at the
\* end of every prefix of a file is covered, since the prefix is a file too.
C13_BarsDoNotMatter == SecondCallEnded => SameAsEarlier

\* C13 (amended): the same, for files in which every message has text after
\* its bars.
C13_BarsBeforeTextDoNotMatter ==
    (/\ SecondCallEnded
     /\ \A i \in DOMAIN earlier.f :
           earlier.f[i].match => Body(earlier.f[i].msg) # <<>>)
        => SameAsEarlier

\* Both calls returned a tree with a section below root; in the first file
\* the start marker of the section and a regular message had bars, in the
\* second they had none.
C13_Witness ==
    /\ SecondCallEnded
    /\ pc = "returned"
    /\ earlier.pc = "returned"
    /\ \E i \in DOMAIN earlier.f :
          /\ IsStartLine(earlier.f[i])
          /\ LeadingBars(earlier.f[i].msg) = MaxBars
          /\ LeadingBars(f[i].msg) = 0
    /\ \E i \in DOMAIN earlier.f :
          /\ IsMessageLine(earlier.f[i])
          /\ LeadingBars(earlier.f[i].msg) = MaxBars
          /\ Body(earlier.f[i].msg) # <<>>
    /\ \E i \in DOMAIN result.children : IsSection(result.children[i])

----------------------------------------------------------------------------
\* The sections other than root.
NonRootSections(t) == Sections(t) \ {root}

EndFieldsChange(n) ==
    \/ tree'[n].data.end_time # tree[n].data.end_time
    \/ tree'[n].data.end_line # tree[n].data.end_line

Pop(s) == SubSeq(s, 1, Len(s) - 1)

\* C14: the end fields of a section other than root change only in a step
\* that reads a timestamped end marker of the section's name while the
\* section is on top of the stack; the step sets them to the timestamp and
\* the number of that line and pops that one section.
C14_ClosedOnlyByItsEndMarker ==
    [][\A n \in NonRootSections(tree) :
          EndFieldsChange(n)
              => (/\ ReadsLine
                  /\ IsEndLine(Last(f'))
                  /\ EndName(Last(f')) = tree[n].data.name
                  /\ stack_of_sections # <<>>
                  /\ Last(stack_of_sections) = n
                  /\ tree'[n].data.end_time = strptime(Last(f').ts_str)
                  /\ tree'[n].data.end_line = Len(f')
                  /\ stack_of_sections' = Pop(stack_of_sections))]_vars

\* The line just read was the end marker of a section other than root: the
\* section has that line's number as end_line and is no longer on the stack.
C14_Witness ==
    /\ pc = "scan"
    /\ f # <<>>
    /\ IsEndLine(Last(f))
    /\ \E n \in NonRootSections(tree) :
          /\ tree[n].data.name = EndName(Last(f))
          /\ tree[n].data.end_line = Len(f)
          /\ tree[n].data.end_time = strptime(Last(f).ts_str)
          /\ \A i \in DOMAIN stack_of_sections : stack_of_sections[i] # n
    /\ stack_of_sections = <<root>>

----------------------------------------------------------------------------
\* What a start marker does when there is a current section.
StartEffect ==
    LET new == Len(tree) + 1
        top == Last(stack_of_sections)
    IN  /\ pc' = "scan"
        /\ Len(tree') = new
        /\ tree'[new] = TreeNode(PartialLogSection(StartName(Last(f')),
                                     strptime(Last(f').ts_str), Len(f')))
        /\ tree'[top].children = Append(tree[top].children, new)
        /\ stack_of_sections' = Append(stack_of_sections, new)

\* C15: a timestamped start marker always succeeds, whatever the stack and
\* the name: it creates one new open section with the line's timestamp and
\* number, appends it as the last child of the section on top of the stack
\* and pushes it.
C15_StartAlwaysPushes ==
    [][(ReadsLine /\ IsStartLine(Last(f')))
          => (stack_of_sections # <<>> /\ StartEffect)]_vars

----------------------------------------------------------------------------
\* What a regular message does when there is a current section.
MessageEffect ==
    LET new == Len(tree) + 1
        top == Last(stack_of_sections)
    IN  /\ pc' = "scan"
        /\ Len(tree') = new
        /\ tree'[new] = TreeNode(LogMessage(strptime(Last(f').ts_str),
                                     Last(f').level, msg_clean(Last(f').msg)))
        /\ tree'[top].children = Append(tree[top].children, new)
        /\ \A n \in DOMAIN tree : n # top => tree'[n].children = tree[n].children
        /\ \A n \in Sections(tree) :
              (n # root \/ n # top) => tree'[n].data = tree[n].data
        /\ stack_of_sections' = stack_of_sections

\* C16: a timestamped line that is neither a start nor an end marker appends
\* one event, with the line's timestamp, level and cleaned message, as the
\* last child of the section on top of the stack, and leaves the stack and
\* every other section alone.
C16_MessageIsAppended ==
    [][(ReadsLine /\ IsMessageLine(Last(f')))
          => (stack_of_sections # <<>> /\ MessageEffect)]_vars

----------------------------------------------------------------------------
StartFieldsKept(n) ==
    /\ tree'[n].data.start_time = tree[n].data.start_time
    /\ tree'[n].data.start_line = tree[n].data.start_line

\* A section made in this step has the timestamp and the number of the line
\* just read.
StartFieldsSetWhenCreated ==
    \A n \in Sections(tree') \ DOMAIN tree :
        /\ ReadsLine
        /\ tree'[n].data.start_time = strptime(Last(f').ts_str)
        /\ tree'[n].data.start_line = Len(f')

\* C17 (as stated): start_time and start_line of every partial section, root
\* included, are set when the section is created and no later step changes
\* them.
C17_StartFieldsNeverChange ==
    [][/\ StartFieldsSetWhenCreated
       /\ \A n \in Sections(tree) : StartFieldsKept(n)]_vars

\* C17 (amended): that holds for every section other than root.  Root is
\* created with both absent; its start_time is set by the first timestamped
\* line, to that line's timestamp, and does not change while lines are
\* read; the close at end of input sets its start_line to 1.
C17_StartFieldsOfRootSetLater ==
    [][/\ StartFieldsSetWhenCreated
       /\ \A n \in NonRootSections(tree) : StartFieldsKept(n)
       /\ tree'[root].data.start_time # tree[root].data.start_time
             => (/\ ReadsLine
                 /\ tree[root].data.start_time = None
                 /\ \A i \in DOMAIN f : ~IsTimestamped(f[i])
                 /\ tree'[root].data.start_time = strptime(Last(f').ts_str))
       /\ tree'[root].data.start_line # tree[root].data.start_line
             => (/\ pc = "close_root"
                 /\ tree[root].data.start_line = None
                 /\ tree'[root].data.start_line = 1)]_vars

\* The scan has gone on for two lines after a start marker: the section has
\* the start fields of its line, and root has a start_time and no
\* start_line yet.
C17_Witness ==
    /\ pc = "scan"
    /\ Len(f) >= 3
    /\ IsTimestamped(Last(f))
    /\ IsStartLine(f[Len(f) - 2])
    /\ \E n \in NonRootSections(tree) :
          /\ tree[n].data.start_line = Len(f) - 2
          /\ tree[n].data.start_time = strptime(f[Len(f) - 2].ts_str)
          /\ tree[n].data.start_time # strptime(Last(f).ts_str)
    /\ tree[root].data.start_time # None
    /\ tree[root].data.start_line = None

----------------------------------------------------------------------------
\* C18: a line that timestamp_re does not match changes the line counter
\* and nothing else: not the stack, not the children or the fields of any
\* section, not the first and last timestamps.
C18_NoMatchChangesOnlyLineCounter ==
    [][(ReadsLine /\ ~Last(f').match)
          => (/\ last_used_line_number' = Len(f')
              /\ UNCHANGED <<pc, tree, stack_of_sections, first_timestamp,
                             last_timestamp, stdout, result, exception>>)]_vars

\* A line that does not match was just read while a section was open, after
\* a timestamped line.
C18_Witness ==
    /\ pc = "scan"
    /\ f # <<>>
    /\ ~Last(f).match
    /\ last_used_line_number = Len(f)
    /\ last_timestamp # None
    /\ Len(stack_of_sections) = 2

----------------------------------------------------------------------------
\* The converted node has, at every position, what the partial tree t has
\* below node n: a section with the same name, times and lines, or the same
\* message, children in the same order.
RECURSIVE Corresponds(_, _, _)
Corresponds(node, t, n) ==
    /\ Len(node.children) = Len(t[n].children)
    /\ IF t[n].data.type = "PartialLogSection"
       THEN /\ node.data.type = "LogSection"
            /\ node.data.name = t[n].data.name
            /\ node.data.start_time = t[n].data.start_time
            /\ node.data.end_time = t[n].data.end_time
            /\ node.data.start_line = t[n].data.start_line
            /\ node.data.end_line = t[n].data.end_line
            /\ \A i \in DOMAIN node.children :
                  Corresponds(node.children[i], t, t[n].children[i])
       ELSE node.data = t[n].data

\* C19: converting a fully closed partial tree leaves the partial tree as
\* it was, and the tree returned has the shape of the partial tree with, at
\* every position, the same section or the same message.
C19_ConversionPreservesStructure ==
    [][pc = "convert"
          => (/\ tree' = tree
              /\ pc' = "returned" => Corresponds(result', tree, root))]_vars

\* A tree was returned whose root has a message and then a section, the
\* section with a child of its own.
C19_Witness ==
    /\ pc = "returned"
    /\ Len(result.children) = 2
    /\ ~IsSection(result.children[1])
    /\ IsSection(result.children[2])
    /\ result.children[2].children # <<>>
    /\ result.data.start_line # result.data.end_line

----------------------------------------------------------------------------
IsOnStack(n) == \E i \in DOMAIN stack_of_sections : stack_of_sections[i] = n

SectionChildren(n) ==
    SelectSeq(tree[n].children, LAMBDA c : c \in Sections(tree))

\* C20: while parse_logs scans, a section other than root has end_time and
\* end_line absent exactly when it is on the stack, and every stack element
\* above the bottom is the last section child of the element below it.
C20_StackIsPathOfOpenSections ==
    pc = "scan"
        => (/\ \A n \in NonRootSections(tree) :
                  /\ IsOnStack(n) <=> tree[n].data.end_time = None
                  /\ IsOnStack(n) <=> tree[n].data.end_line = None
            /\ \A i \in 1..(Len(stack_of_sections) - 1) :
                  /\ SectionChildren(stack_of_sections[i]) # <<>>
                  /\ Last(SectionChildren(stack_of_sections[i]))
                         = stack_of_sections[i + 1])

\* Two sections are open, one in the other, after an earlier child of root
\* was closed.
C20_Witness ==
    /\ pc = "scan"
    /\ Len(stack_of_sections) = 3
    /\ Len(SectionChildren(root)) = 2
    /\ tree[SectionChildren(root)[1]].data.end_time # None

----------------------------------------------------------------------------
\* a <= b for two naturals in bits.
BitsLeq(a, b) ==
    LET bit(x, i) == IF i \in DOMAIN x THEN x[i] ELSE 0
        differ == {i \in DOMAIN a \cup DOMAIN b : bit(a, i) # bit(b, i)}
    IN  differ = {} \/ bit(b, Highest(differ)) = 1

\* The float x is within half a unit in its last place of n / d.
IsNearest(x, n, d) ==
    IF n = 0 THEN x = Zero
    ELSE LET pad == Precision - Len(x.m)
             a == TimesSmall(Limbs(ShiftLeft(x.m, pad + 1)), d, 0)
             b == Limbs(ShiftLeft(Bits(Abs(n)), 1 - (x.e - pad)))
         IN  /\ x # Zero
             /\ x.neg = (n < 0)
             /\ x.e - pad <= 0
             /\ BitsLeq(BitsOf(a), BitsOf(TimesSmall(b, 1, d)))
             /\ BitsLeq(BitsOf(b), BitsOf(TimesSmall(a, 1, d)))

\* The whole number of microseconds from the section's start marker to its
\* end marker.
MarkerDifference(section) ==
    TimeOfLine(section.end_line) - TimeOfLine(section.start_line)

RECURSIVE DurationsAreDifferences(_)
DurationsAreDifferences(node) ==
    \A i \in DOMAIN node.children :
        LET child == node.children[i]
        IN  IsSection(child) =>
                /\ duration_microseconds(child.data)
                       = FromInt(MarkerDifference(child.data))
                /\ IsNearest(duration_seconds(child.data),
                             MarkerDifference(child.data), 1000000)
                /\ DurationsAreDifferences(child)

\* C12: in a returned tree, duration_microseconds of a section other than
\* root is the timestamp of its end marker minus the timestamp of its start
\* marker in microseconds, duration_seconds is that difference in seconds,
\* and both are 0 when the two timestamps are equal.
C12_DurationIsMarkerDifference ==
    pc = "returned" => DurationsAreDifferences(result)

====
